---- MODULE Spec2Model ----
(***************************************************************************)
(* Model of the OJ Microline thermostat client (ojmicroline_thermostat).   *)
(*                                                                         *)
(* The client object (class OJMicroline) holds a transport, a session      *)
(* token and a call counter.  Its coroutines login(), get_thermostats(),   *)
(* set_regulation_mode() and close() run in an execution context and       *)
(* suspend where _request awaits the HTTP response; every action below is  *)
(* the code that runs between two such suspension points.                  *)
(***************************************************************************)
EXTENDS Integers, Sequences, FiniteSets, TLC

(***************************************************************************)
(* Bounds of the model.                                                    *)
(***************************************************************************)
\* Calls are no longer started once the counter has fallen this far below 0.
MaxOverdraft == 3

\* Largest number of day-buckets in a schedule document.
MaxBuckets == 2

\* Largest number of microseconds the clock advances after a schedule is built.
MaxTicks == 1

(***************************************************************************)
(* Program constants.                                                      *)
(***************************************************************************)
\* OJMicroline.__session_calls: maximum number of requests in one session.
session_calls == 300

\* The vendor error code that login and the WD5 parsers treat as failure.
FailureCode == 1

\* Python's None for the session token.
None == "None"

\* Execution contexts (coroutines) that may call into one client.
Contexts == {"c1", "c2"}

\* The contexts that call the client in serial use.
SerialContexts == {"c1"}

\* The two adapters (implementations of OJMicrolineAPI).
Adapters == {"WD5", "WG4"}

(***************************************************************************)
(* The environment: what the server and the transport can answer.          *)
(***************************************************************************)
\* Session ids the server hands out.
Tokens == {"s1", "s2"}

\* Values of the ErrorCode field of a response.
ErrorCodes == {0, 1, 2}

\* Content-Type headers of a response ("" stands for a missing header).
ContentTypes == {"application/json", "application/json; charset=utf-8",
                 "text/html", ""}

\* Group lists of a list response: a group is a list of items, item 0 is an
\* empty object and any other item is a thermostat.
GroupChoices == { <<>>, << <<1>> >>, << <<0, 1>>, <<2>> >> }

\* The headers among them that contain the text "application/json".
JsonContentTypes == {"application/json", "application/json; charset=utf-8"}

\* What the transport does with a request on an open session.
TransportOutcomes == {"timeout", "client_error", "http_status", "dns",
                      "response"}

NoData == [ErrorCode |-> 0, SessionId |-> None, Groups |-> <<>>,
           Success |-> TRUE]

\* The JSON documents the server can send for a request of the given kind.
ResponseData(kind, adapter) ==
  CASE kind = "login" ->
         [ErrorCode : ErrorCodes, SessionId : Tokens, Groups : {<<>>},
          Success : {TRUE}]
    [] kind = "list" ->
         [ErrorCode : IF adapter = "WD5" THEN ErrorCodes ELSE {0},
          SessionId : {None}, Groups : GroupChoices, Success : {TRUE}]
    [] OTHER ->
         [ErrorCode : IF adapter = "WD5" THEN ErrorCodes ELSE {0},
          SessionId : {None}, Groups : {<<>>},
          Success : IF adapter = "WG4" THEN BOOLEAN ELSE {TRUE}]

NoResponse == [kind |-> "none", outcome |-> "none", ct |-> "", data |-> NoData]

NoRequest == [kind |-> "none", sessionid |-> None, held |-> None, before |-> 0]

NoResult == [status |-> "none", thermostats |-> <<>>, value |-> FALSE]

VARIABLES
  api,                 \* the adapter the client was constructed with
  http_session,        \* __http_session: "None", "external" or "internal"
  close_http_session,  \* __close_http_session: the owned flag
  http_closes,         \* how often the transport's close() was awaited
  session_id,          \* __session_id
  session_calls_left,  \* __session_calls_left
  pc,                  \* per context: where its coroutine is suspended
  op,                  \* per context: the method it called last
  inflight,            \* per context: the request awaiting its response
  result,              \* per context: how its last call ended
  at_call,             \* per context: token, counter, owned flag at the call
  sent,                \* per context: requests dispatched by the call
  last_resp,           \* per context: last transport outcome of the call
  login_resp,          \* per context: outcome of the call's login request
  last_login_token,    \* SessionId of the most recent successful login
  used,                \* list/update requests dispatched with the held token
  json_doc,            \* the "Days" list of a schedule document
  clock_now,           \* what datetime.now() returns
  schedule_days,       \* Schedule.days as built by from_json
  schedule_out,        \* outcome of the last evaluation of the schedule
  thermostat_json,     \* a thermostat item of a list response
  thermostat,          \* the Thermostat parsed from it: <<>> or <<object>>
  thermostat_out,      \* outcome of the last accessor called on it
  local_zone,          \* UTC offset (seconds) of the system's time zone
  update_out           \* the last update request built for the Thermostat

vars == <<api, http_session, close_http_session, http_closes, session_id,
          session_calls_left, pc, op, inflight, result, at_call, sent,
          last_resp, login_resp, last_login_token, used,
          json_doc, clock_now, schedule_days, schedule_out,
          thermostat_json, thermostat, thermostat_out,
          local_zone, update_out>>

\* The variables of the update requests.
update_vars == <<local_zone, update_out>>

\* The variables of the Thermostat model.
thermostat_vars == <<thermostat_json, thermostat, thermostat_out>>

\* The variables of the Schedule model.
schedule_vars == <<json_doc, schedule_days, schedule_out>>

\* The variables of the data models, untouched by the client.
model_vars == <<clock_now, schedule_vars, thermostat_vars, update_vars>>

client == <<http_session, close_http_session, http_closes, session_id,
            session_calls_left>>

(***************************************************************************)
(* Pure parts of the code.                                                 *)
(***************************************************************************)
\* Variant: a new session is requested only when both conditions hold.
login_required_both(calls_left, sid) == calls_left = 0 /\ sid = None

\* login(): the condition under which a new session is requested.
login_required(calls_left, sid) == calls_left = 0 \/ sid = None

\* set_regulation_mode(): the condition under which it awaits login().
set_regulation_mode_calls_login(sid) == sid = None

\* Variant: every nonzero error code counts as an authentication failure.
login_failed_any_nonzero(data) == data.ErrorCode # 0

\* Variant: only error codes above the failure code count as a failure.
login_failed_above(data) == data.ErrorCode > FailureCode

\* login(): the response signals an authentication failure.
login_failed(data) == data.ErrorCode = FailureCode

\* Variant: the dispatch does not count the call.
calls_after_dispatch_uncounted(calls_left) == calls_left

\* _request: "Reduce the number of calls left by 1."
calls_after_dispatch(calls_left) == calls_left - 1

\* _request: the Content-Type check of the response, true of the headers
\* that contain "application/json".
is_json_content_type(ct) == ct \in JsonContentTypes

\* Variant: a timeout is reported as an ordinary connection error.
request_result_timeout_as_connection(outcome, ct) ==
  CASE outcome \in {"timeout", "client_error", "http_status", "dns"} ->
         "OJMicrolineConnectionError"
    [] outcome = "closed" -> "RuntimeError"
    [] OTHER -> IF is_json_content_type(ct) THEN "data" ELSE "OJMicrolineError"

\* _request: what the dispatch point makes of a transport outcome; "data"
\* stands for returning the decoded JSON document.
request_result(outcome, ct) ==
  CASE outcome = "timeout" -> "OJMicrolineTimeoutError"
    [] outcome \in {"client_error", "http_status", "dns"} ->
         "OJMicrolineConnectionError"
    [] outcome = "closed" -> "RuntimeError"
    [] OTHER -> IF is_json_content_type(ct) THEN "data" ELSE "OJMicrolineError"

RECURSIVE nonempty_items(_)
\* The thermostats of one group: every item with len(item) > 0.
nonempty_items(items) ==
  IF items = <<>> THEN <<>>
  ELSE (IF Head(items) # 0 THEN <<Head(items)>> ELSE <<>>)
       \o nonempty_items(Tail(items))

RECURSIVE parse_groups(_)
\* The nested loop shared by both parse_thermostats_response methods.
parse_groups(groups) ==
  IF groups = <<>> THEN <<>>
  ELSE nonempty_items(Head(groups)) \o parse_groups(Tail(groups))

\* WD5API.parse_thermostats_response raises the results error.
wd5_list_failed(data) == data.ErrorCode = FailureCode

\* parse_thermostats_response of the adapter: an error status or "data".
parse_thermostats_status(adapter, data) ==
  IF adapter = "WD5" /\ wd5_list_failed(data)
  THEN "OJMicrolineResultsError" ELSE "returned"

\* Variant: only error code 0 counts as success ("== 0").
wd5_parse_update_regulation_mode_response_zero(data) == data.ErrorCode = 0

\* WD5API.parse_update_regulation_mode_response
wd5_parse_update_regulation_mode_response(data) ==
  data.ErrorCode # FailureCode

\* WG4API.parse_update_regulation_mode_response
wg4_parse_update_regulation_mode_response(data) == data.Success

\* parse_update_regulation_mode_response of the adapter.
parse_update_regulation_mode_response(adapter, data) ==
  IF adapter = "WD5" THEN wd5_parse_update_regulation_mode_response(data)
  ELSE wg4_parse_update_regulation_mode_response(data)

(***************************************************************************)
(* Time.  A datetime is a day number (day 0 is a Monday), a wall clock and *)
(* a microsecond.                                                          *)
(***************************************************************************)
\* datetime(...): the value built from a date, a clock and a microsecond.
datetime(d, hour, minute, second, microsecond) ==
  [day |-> d, hour |-> hour, minute |-> minute, second |-> second,
   us |-> microsecond]

\* datetime.weekday(): 0 is Monday, 6 is Sunday.
weekday(t) == t.day % 7

\* datetime + timedelta(days=n)
plus_days(t, n) == [t EXCEPT !.day = t.day + n]

\* The seconds of a datetime since day 0.
seconds_of(t) == ((t.day * 24 + t.hour) * 60 + t.minute) * 60 + t.second

\* The comparison b > a of two datetimes.
earlier(a, b) ==
  \/ seconds_of(a) < seconds_of(b)
  \/ seconds_of(a) = seconds_of(b) /\ a.us < b.us

(***************************************************************************)
(* Schedule documents.                                                     *)
(***************************************************************************)
\* The vendor's day codes: 0 is Sunday, 1 Monday, ... 6 Saturday.
DayCodes == 0..6

\* An event of a document; Clock "HH:MM:SS" is kept as <<HH, MM, SS>>.
Event(clock, temperature, active) ==
  [Clock |-> clock, Temperature |-> temperature, Active |-> active]

\* The event lists of the day-buckets.
EventLists ==
  { <<>>,
    << Event(<<6, 0, 0>>, 900, FALSE) >>,
    << Event(<<6, 0, 0>>, 900, FALSE), Event(<<8, 30, 0>>, 2500, TRUE) >>,
    << Event(<<6, 0, 0>>, 2000, TRUE), Event(<<8, 30, 0>>, 2500, TRUE) >>,
    << Event(<<8, 30, 0>>, 2500, TRUE), Event(<<6, 0, 0>>, 2000, TRUE) >>,
    << Event(<<6, 0, 0>>, 2500, TRUE), Event(<<6, 0, 0>>, 0, TRUE) >> }

\* The day-buckets of a document.
Buckets == [WeekDayGrpNo : DayCodes, Events : EventLists]

\* The documents: lists of at most MaxBuckets day-buckets.
Docs == UNION {[1..n -> Buckets] : n \in 0..MaxBuckets}

\* The times at which a schedule is built: Monday 06:00 and 09:00, Tuesday
\* 06:00 (days 7 and 8).
Nows == {datetime(7, 6, 0, 0, 0), datetime(7, 9, 0, 0, 0),
         datetime(8, 6, 0, 0, 0)}

\* No Schedule object yet; `at` remembers the time from_json ran.
NoSchedule == [built |-> FALSE, at |-> datetime(0, 0, 0, 0, 0), days |-> <<>>]

NoOut == [fn |-> "none", raised |-> "none", value |-> 0]

\* No accessor of the Thermostat called yet; `elapsed` is the time between
\* the two readings of the clock in get_target_temperature.
NoAccess == [fn |-> "none", raised |-> "none", value |-> 0, elapsed |-> 0]

\* No update request built yet: how many were built, the arguments of the
\* last one, its body and query parameters.
NoUpdate ==
  [count |-> 0, api |-> "none", regulation_mode |-> 0, temperature |-> <<>>,
   duration |-> 0, body |-> <<>>, params |-> <<>>]

\* The update requests at rest.
UpdateIdle ==
  /\ local_zone = 0
  /\ update_out = NoUpdate

\* The Schedule model at rest.
ScheduleIdle ==
  /\ json_doc = <<>>
  /\ schedule_days = NoSchedule
  /\ schedule_out = NoOut

\* The Thermostat model at rest.
ThermostatIdle ==
  /\ thermostat_json = <<>>
  /\ thermostat = <<>>
  /\ thermostat_out = NoAccess

\* The data models at rest (while the client is exercised).
ModelsIdle ==
  /\ clock_now = datetime(7, 6, 0, 0, 0)
  /\ ScheduleIdle
  /\ ThermostatIdle
  /\ UpdateIdle

(***************************************************************************)
(* Schedule.from_json                                                      *)
(***************************************************************************)
\* Variant: only the vendor's Sunday is moved.
canonical_day_sunday_only(code) == IF code = 0 THEN 6 ELSE code

\* from_json: "Define the week days."
canonical_day(code) ==
  IF code = 0 THEN 6 ELSE IF code = 1 THEN 0 ELSE code - 1

\* from_json: the ScheduleEvent built for one event of the bucket of a day.
schedule_event(event, d, now) ==
  [date |-> plus_days(datetime(now.day, event.Clock[1], event.Clock[2],
                               event.Clock[3], now.us),
                      d - weekday(now)),
   temperature |-> event.Temperature]

\* Variant: inactive events are kept as well.
keeps_event_always(event) == TRUE

\* from_json: the test that keeps an event.
keeps_event(event) == event.Active = TRUE

RECURSIVE bucket_events(_, _, _)
\* from_json: "Get the events." of one bucket, in source order.
bucket_events(events, d, now) ==
  IF events = <<>> THEN <<>>
  ELSE (IF keeps_event(Head(events))
        THEN <<schedule_event(Head(events), d, now)>> ELSE <<>>)
       \o bucket_events(Tail(events), d, now)

\* result[day] = events on a dict.
dict_set(dict, key, value) ==
  [k \in DOMAIN dict \cup {key} |-> IF k = key THEN value ELSE dict[k]]

RECURSIVE from_json_loop(_, _, _)
\* from_json: the loop over data["Days"].
from_json_loop(items, now, dict) ==
  IF items = <<>> THEN dict
  ELSE LET d == canonical_day(Head(items).WeekDayGrpNo) IN
       from_json_loop(Tail(items), now,
                      dict_set(dict, d,
                               bucket_events(Head(items).Events, d, now)))

\* Schedule.from_json(data) at the time now: the days of the Schedule.
from_json(items, now) == from_json_loop(items, now, <<>>)

(***************************************************************************)
(* Schedule.get_active_temperature                                         *)
(***************************************************************************)
RECURSIVE active_scan(_, _, _)
\* The loop over today's events: every event before now overwrites.
active_scan(events, now, temperature) ==
  IF events = <<>> THEN temperature
  ELSE active_scan(Tail(events), now,
                   IF earlier(Head(events).date, now)
                   THEN Head(events).temperature ELSE temperature)

\* Variant: yesterday is the day before without the wrap to Sunday.
previous_day_unwrapped(current_day) ==
  IF current_day = 0 THEN 0 ELSE current_day - 1

\* get_active_temperature: the day before current_day.
previous_day(current_day) == IF current_day = 0 THEN 6 ELSE current_day - 1

\* get_active_temperature: the event the fallback takes, [-1].
fallback_event(events) == events[Len(events)]

\* Schedule.get_active_temperature() at the time now: the value returned or
\* the exception raised by a missing day or an empty list.
get_active_temperature(days, now) ==
  LET current_day == weekday(now)
      prev_day == previous_day(current_day)
  IN
  IF current_day \notin DOMAIN days
  THEN [raised |-> "KeyError", value |-> 0]
  ELSE LET temperature == active_scan(days[current_day], now, 0) IN
       IF temperature # 0
       THEN [raised |-> "none", value |-> temperature]
       ELSE IF prev_day \notin DOMAIN days
       THEN [raised |-> "KeyError", value |-> 0]
       ELSE IF days[prev_day] = <<>>
       THEN [raised |-> "IndexError", value |-> 0]
       ELSE [raised |-> "none",
             value |-> fallback_event(days[prev_day]).temperature]

(***************************************************************************)
(* Schedule.get_lowest_temperature                                         *)
(***************************************************************************)
NoTemperature == [set |-> FALSE, t |-> 0]

\* Variant: the comparison keeps the highest temperature.
lower_reversed(temperature, event) ==
  IF ~temperature.set \/ temperature.t < event.temperature
  THEN [set |-> TRUE, t |-> event.temperature] ELSE temperature

\* get_lowest_temperature: the body of the inner loop.
lower(temperature, event) ==
  IF ~temperature.set \/ temperature.t > event.temperature
  THEN [set |-> TRUE, t |-> event.temperature] ELSE temperature

RECURSIVE lowest_in_day(_, _)
\* get_lowest_temperature: the loop over the events of one day.
lowest_in_day(events, temperature) ==
  IF events = <<>> THEN temperature
  ELSE lowest_in_day(Tail(events), lower(temperature, Head(events)))

RECURSIVE lowest_in_days(_, _, _)
\* get_lowest_temperature: the loop over the days of the schedule.
lowest_in_days(days, keys, temperature) ==
  IF keys = {} THEN temperature
  ELSE LET k == CHOOSE x \in keys : \A y \in keys : x <= y IN
       lowest_in_days(days, keys \ {k}, lowest_in_day(days[k], temperature))

\* Schedule.get_lowest_temperature()
get_lowest_temperature(days) ==
  LET temperature == lowest_in_days(days, DOMAIN days, NoTemperature) IN
  IF ~temperature.set THEN 0 ELSE temperature.t

(***************************************************************************)
(* The schedule exercised on its own: a document is built into a Schedule  *)
(* at some time and evaluated then or a little later.                      *)
(***************************************************************************)
client_vars == <<api, http_session, close_http_session, http_closes,
                 session_id, session_calls_left, pc, op, inflight, result,
                 at_call, sent, last_resp, login_resp, last_login_token,
                 used>>

\* The client at rest (while the data models are exercised).
ClientIdle ==
  /\ api = "WD5"
  /\ http_session = "None"
  /\ close_http_session = FALSE
  /\ http_closes = 0
  /\ session_id = None
  /\ session_calls_left = 0
  /\ pc = [c \in Contexts |-> "idle"]
  /\ op = [c \in Contexts |-> "none"]
  /\ inflight = [c \in Contexts |-> NoRequest]
  /\ result = [c \in Contexts |-> NoResult]
  /\ at_call = [c \in Contexts |->
                  [calls_left |-> 0, session_id |-> None, owned |-> FALSE]]
  /\ sent = [c \in Contexts |-> <<>>]
  /\ last_resp = [c \in Contexts |-> NoResponse]
  /\ login_resp = [c \in Contexts |-> NoResponse]
  /\ last_login_token = None
  /\ used = 0

InitSchedule ==
  /\ ClientIdle
  /\ ThermostatIdle
  /\ UpdateIdle
  /\ json_doc \in Docs
  /\ clock_now \in Nows
  /\ schedule_days = NoSchedule
  /\ schedule_out = NoOut

\* Schedule.from_json(data)
schedule_from_json ==
  /\ ~schedule_days.built
  /\ schedule_days' = [built |-> TRUE, at |-> clock_now,
                        days |-> from_json(json_doc, clock_now)]
  /\ UNCHANGED <<client_vars, thermostat_vars, update_vars, json_doc, clock_now,
                 schedule_out>>

\* Time passes between building the schedule and evaluating it.
clock_tick ==
  /\ schedule_days.built
  /\ schedule_out = NoOut
  /\ clock_now.us < MaxTicks
  /\ clock_now' = [clock_now EXCEPT !.us = clock_now.us + 1]
  /\ UNCHANGED <<client_vars, thermostat_vars, update_vars, json_doc,
                 schedule_days, schedule_out>>

\* schedule.get_active_temperature()
schedule_get_active_temperature ==
  /\ schedule_days.built
  /\ schedule_out = NoOut
  /\ schedule_out' =
       LET r == get_active_temperature(schedule_days.days, clock_now) IN
       [fn |-> "get_active_temperature", raised |-> r.raised,
        value |-> r.value]
  /\ UNCHANGED <<client_vars, thermostat_vars, update_vars, json_doc, clock_now,
                 schedule_days>>

\* schedule.get_lowest_temperature()
schedule_get_lowest_temperature ==
  /\ schedule_days.built
  /\ schedule_out = NoOut
  /\ schedule_out' =
       [fn |-> "get_lowest_temperature", raised |-> "none",
        value |-> get_lowest_temperature(schedule_days.days)]
  /\ UNCHANGED <<client_vars, thermostat_vars, update_vars, json_doc, clock_now,
                 schedule_days>>

NextSchedule ==
  \/ schedule_from_json
  \/ clock_tick
  \/ schedule_get_active_temperature
  \/ schedule_get_lowest_temperature

SpecSchedule == InitSchedule /\ [][NextSchedule]_vars

(***************************************************************************)
(* Dates of the thermostat.  The text of a date is <<day, HH, MM, SS>>, day *)
(* counting the days of the calendar; an offset-aware datetime is its wall  *)
(* clock in seconds since day 0 and its UTC offset in seconds.              *)
(***************************************************************************)
\* The wall clock a date text shows, in seconds since day 0.
text_seconds(text) ==
  ((text[1] * 24 + text[2]) * 60 + text[3]) * 60 + text[4]

\* Variant: the text of the UTC wall clock of d.
strftime_utc(d) ==
  <<(d.wall - d.off) \div 86400, ((d.wall - d.off) \div 3600) % 24,
    ((d.wall - d.off) \div 60) % 60, (d.wall - d.off) % 60>>

\* strftime("%Y-%m-%dT%H:%M:%S"): the text of the wall clock of d.
strftime(d) ==
  <<d.wall \div 86400, (d.wall \div 3600) % 24, (d.wall \div 60) % 60,
    d.wall % 60>>

\* abs(offset)
abs(n) == IF n >= 0 THEN n ELSE -n

\* strftime("%H:%M", gmtime(seconds)): <<HH, MM>>
gmtime_hh_mm(seconds) == <<(seconds \div 3600) % 24, (seconds \div 60) % 60>>

\* strptime(value + separator + timezone, "%Y-%m-%dT%H:%M:%S%z")
strptime_z(value, separator, timezone) ==
  [wall |-> text_seconds(value),
   off |-> separator * (timezone[1] * 3600 + timezone[2] * 60)]

\* datetime + timedelta(seconds=n): the wall clock moves, the offset stays.
plus_seconds(d, n) == [d EXCEPT !.wall = d.wall + n]

\* Variant: the offset is not taken off the parsed value.
wd5_correction_none(d, offset) == d

\* parse_wd5_date: the value minus the offset as a duration when offset >= 0
\* and plus it otherwise.
wd5_correction(d, offset) ==
  IF offset >= 0 THEN plus_seconds(d, -offset) ELSE plus_seconds(d, offset)

\* parse_wd5_date(value, offset)
parse_wd5_date(value, offset) ==
  LET timezone == gmtime_hh_mm(abs(offset))
      separator == IF offset >= 0 THEN 1 ELSE -1
  IN wd5_correction(strptime_z(value, separator, timezone), offset)

\* d.astimezone(): the same instant on the wall clock of the system's zone.
astimezone(d) == [wall |-> d.wall - d.off + local_zone, off |-> local_zone]

\* parse_wg4_date(value): value is [clock, offsets], the date and the UTC
\* offsets written after it ("28/01/2024 23:29:00 +00:00 +00:00"); the text
\* after the second "+" is dropped.
parse_wg4_date(value) ==
  astimezone([wall |-> text_seconds(value.clock), off |-> value.offsets[1]])

\* datetime.now(tz=UTC), clock_now being datetime.now() in the system's zone.
now_utc == [wall |-> seconds_of(clock_now) - local_zone, off |-> 0]

(***************************************************************************)
(* Thermostat.  A value that may be None is <<>> for None and <<v>> for v.  *)
(***************************************************************************)
SENSOR_ROOM_FLOOR == 1
SENSOR_FLOOR == 3
SENSOR_ROOM == 4

REGULATION_SCHEDULE == 1
REGULATION_COMFORT == 2
REGULATION_MANUAL == 3
REGULATION_VACATION == 4
REGULATION_FROST_PROTECTION == 6
REGULATION_BOOST == 8
REGULATION_ECO == 9

\* A regulation mode and a sensor mode the library does not know.
UnknownRegulationMode == 42
UnknownSensorMode == 999

\* The regulation modes a WD5 item may carry.
RegulationModes ==
  {REGULATION_SCHEDULE, REGULATION_COMFORT, REGULATION_MANUAL,
   REGULATION_VACATION, REGULATION_FROST_PROTECTION, REGULATION_BOOST,
   REGULATION_ECO, UnknownRegulationMode}

\* The sensor modes a WD5 item may carry.
SensorModes ==
  {SENSOR_ROOM_FLOOR, SENSOR_FLOOR, SENSOR_ROOM, UnknownSensorMode}

\* The day-buckets of the schedule of an item: Sunday, Monday, Tuesday.
ThermostatBuckets == [WeekDayGrpNo : {0, 1, 2}, Events : EventLists]

\* The "Days" of the schedule of an item.
ThermostatDocs == UNION {[1..n -> ThermostatBuckets] : n \in 0..MaxBuckets}

\* A WD5 item in Comfort mode with a room sensor and no schedule.
WD5Item ==
  [api |-> "WD5", RegulationMode |-> REGULATION_COMFORT,
   SensorAppl |-> SENSOR_ROOM,
   FloorTemperature |-> <<4001>>, RoomTemperature |-> <<2000>>,
   ComfortSetpoint |-> 2, ManualModeSetpoint |-> 3,
   VacationTemperature |-> <<4>>, FrostProtectionTemperature |-> <<5>>,
   MaxSetpoint |-> <<6>>, Schedule |-> <<>>,
   Id |-> 117006, SerialNumber |-> "15", GroupId |-> 350, GroupName |-> "Living",
   AdaptiveMode |-> TRUE, OpenWindow |-> TRUE, DaylightSavingActive |-> FALSE,
   VacationEnabled |-> FALSE, TimeZone |-> 3600,
   ComfortEndTime |-> <<3, 15, 58, 34>>, BoostEndTime |-> <<8, 14, 55, 1>>,
   VacationBeginDay |-> <<2, 0, 0, 0>>, VacationEndDay |-> <<3, 0, 0, 0>>]

\* WD5 items in the two modes that read the schedule, with every schedule.
WD5ScheduleItems ==
  {[WD5Item EXCEPT !.RegulationMode = m, !.Schedule = <<d>>] :
     m \in {REGULATION_SCHEDULE, REGULATION_ECO}, d \in ThermostatDocs}

\* WD5 items in every mode, with setpoints present or null, without or with
\* a schedule.
WD5ModeItems ==
  {[WD5Item EXCEPT !.RegulationMode = m, !.VacationTemperature = v,
                   !.FrostProtectionTemperature = f, !.MaxSetpoint = x,
                   !.Schedule = sch] :
     m \in RegulationModes, v \in {<<>>, <<4>>}, f \in {<<>>, <<5>>},
     x \in {<<>>, <<6>>},
     sch \in {<<>>, << << [WeekDayGrpNo |-> 1,
                          Events |-> << Event(<<6, 0, 0>>, 2000, TRUE) >>]
                      >> >>}}

\* WD5 items with every sensor mode and sensor readings present or null.
WD5SensorItems ==
  {[WD5Item EXCEPT !.SensorAppl = a, !.FloorTemperature = f,
                   !.RoomTemperature = r] :
     a \in SensorModes, f \in {<<>>, <<0>>, <<4001>>},
     r \in {<<>>, <<2000>>}}

\* WG4 items.
WG4Items ==
  [api : {"WG4"},
   RegulationMode : {REGULATION_SCHEDULE, REGULATION_COMFORT,
                     REGULATION_MANUAL, REGULATION_VACATION},
   Temperature : {0, 2150}, SetPointTemp : {0, 2300},
   ComfortTemperature : {2}, ManualTemperature : {3},
   VacationTemperature : {4},
   SerialNumber : {"42424242"}, GroupId : {-1}, GroupName : {""},
   VacationEnabled : {FALSE}, TZOffset : {3600},
   ComfortEndTime : {[clock |-> <<3, 23, 29, 0>>, offsets |-> <<0, 0>>]},
   VacationBeginDay : {[clock |-> <<2, 0, 0, 0>>, offsets |-> <<>>]},
   VacationEndDay : {[clock |-> <<3, 0, 0, 0>>, offsets |-> <<>>]}]

\* Thermostat.from_wd5_json(data)
from_wd5_json(data) ==
  [regulation_mode |-> data.RegulationMode,
   sensor_mode |-> <<data.SensorAppl>>,
   temperature_floor |-> data.FloorTemperature,
   temperature_room |-> data.RoomTemperature,
   comfort_temperature |-> data.ComfortSetpoint,
   manual_temperature |-> data.ManualModeSetpoint,
   frost_protection_temperature |-> data.FrostProtectionTemperature,
   boost_temperature |-> data.MaxSetpoint,
   vacation_temperature |-> data.VacationTemperature,
   schedule |-> data.Schedule,
   temperature |-> <<>>,
   set_point_temperature |-> <<>>,
   thermostat_id |-> <<data.Id>>,
   serial_number |-> data.SerialNumber,
   zone_id |-> data.GroupId,
   zone_name |-> data.GroupName,
   adaptive_mode |-> <<data.AdaptiveMode>>,
   open_window_detection |-> <<data.OpenWindow>>,
   daylight_saving_active |-> <<data.DaylightSavingActive>>,
   vacation_mode |-> <<data.VacationEnabled>>,
   boost_end_time |-> <<parse_wd5_date(data.BoostEndTime, data.TimeZone)>>,
   comfort_end_time |-> parse_wd5_date(data.ComfortEndTime, data.TimeZone),
   vacation_begin_time |->
     <<parse_wd5_date(data.VacationBeginDay, data.TimeZone)>>,
   vacation_end_time |->
     <<parse_wd5_date(data.VacationEndDay, data.TimeZone)>>]

\* Thermostat.from_wg4_json(data)
from_wg4_json(data) ==
  [regulation_mode |-> data.RegulationMode,
   sensor_mode |-> <<>>,
   temperature_floor |-> <<>>,
   temperature_room |-> <<>>,
   comfort_temperature |-> data.ComfortTemperature,
   manual_temperature |-> data.ManualTemperature,
   frost_protection_temperature |-> <<>>,
   boost_temperature |-> <<>>,
   vacation_temperature |-> <<data.VacationTemperature>>,
   schedule |-> <<>>,
   temperature |-> <<data.Temperature>>,
   set_point_temperature |-> <<data.SetPointTemp>>,
   thermostat_id |-> <<>>,
   serial_number |-> data.SerialNumber,
   zone_id |-> data.GroupId,
   zone_name |-> data.GroupName,
   adaptive_mode |-> <<>>,
   open_window_detection |-> <<>>,
   daylight_saving_active |-> <<>>,
   vacation_mode |-> <<data.VacationEnabled>>,
   boost_end_time |-> <<>>,
   comfort_end_time |-> parse_wg4_date(data.ComfortEndTime),
   vacation_begin_time |->
     <<parse_wg4_date([data.VacationBeginDay EXCEPT
                         !.offsets = @ \o <<data.TZOffset>>])>>,
   vacation_end_time |->
     <<parse_wg4_date([data.VacationEndDay EXCEPT
                         !.offsets = @ \o <<data.TZOffset>>])>>]

\* `x or 0` on a value that may be None.
or_zero(x) == IF x = <<>> THEN 0 ELSE x[1]

\* An accessor returns a value.
returns(value) == [raised |-> "none", value |-> value]

\* Variant: the set-point field is never looked at.
has_set_point_temperature_never(t) == FALSE

\* get_target_temperature: self.set_point_temperature is not None
has_set_point_temperature(t) == t.set_point_temperature # <<>>

\* Thermostat.get_target_temperature(); from_json reads the clock at now and
\* get_active_temperature reads it again at later.
get_target_temperature(t, now, later) ==
  IF has_set_point_temperature(t)
  THEN returns(t.set_point_temperature[1])
  ELSE IF t.regulation_mode = REGULATION_SCHEDULE /\ t.schedule # <<>>
  THEN get_active_temperature(from_json(t.schedule[1], now), later)
  ELSE IF t.regulation_mode = REGULATION_COMFORT
  THEN returns(t.comfort_temperature)
  ELSE IF t.regulation_mode = REGULATION_MANUAL
  THEN returns(t.manual_temperature)
  ELSE IF t.regulation_mode = REGULATION_VACATION
  THEN returns(or_zero(t.vacation_temperature))
  ELSE IF t.regulation_mode = REGULATION_FROST_PROTECTION
  THEN returns(or_zero(t.frost_protection_temperature))
  ELSE IF t.regulation_mode = REGULATION_BOOST
  THEN returns(or_zero(t.boost_temperature))
  ELSE IF t.regulation_mode = REGULATION_ECO /\ t.schedule # <<>>
  THEN returns(get_lowest_temperature(from_json(t.schedule[1], now)))
  ELSE returns(0)

\* Variant: the average is rounded down.
ceil_half_down(n) == n \div 2

\* ceil(n / 2)
ceil_half(n) == IF n % 2 = 0 THEN n \div 2 ELSE n \div 2 + 1

\* Thermostat.get_current_temperature()
get_current_temperature(t) ==
  IF t.temperature # <<>>
  THEN returns(t.temperature[1])
  ELSE IF t.sensor_mode = <<SENSOR_ROOM>>
  THEN returns(or_zero(t.temperature_room))
  ELSE IF t.sensor_mode = <<SENSOR_FLOOR>>
  THEN returns(or_zero(t.temperature_floor))
  ELSE IF t.sensor_mode = <<SENSOR_ROOM_FLOOR>>
  THEN returns(ceil_half(or_zero(t.temperature_floor)
                         + or_zero(t.temperature_room)))
  ELSE returns(0)

(***************************************************************************)
(* The Thermostat exercised on its own: an item is parsed and one of its   *)
(* accessors is called.                                                    *)
(***************************************************************************)
InitThermostat ==
  /\ ClientIdle
  /\ ScheduleIdle
  /\ UpdateIdle
  /\ clock_now \in Nows
  /\ thermostat_json \in
       WD5ScheduleItems \cup WD5ModeItems \cup WD5SensorItems \cup WG4Items
  /\ thermostat = <<>>
  /\ thermostat_out = NoAccess

\* Thermostat.from_wd5_json(data)
thermostat_from_wd5_json ==
  /\ thermostat = <<>>
  /\ thermostat_json.api = "WD5"
  /\ thermostat' = <<from_wd5_json(thermostat_json)>>
  /\ UNCHANGED <<client_vars, schedule_vars, update_vars, clock_now,
                 thermostat_json, thermostat_out>>

\* Thermostat.from_wg4_json(data)
thermostat_from_wg4_json ==
  /\ thermostat = <<>>
  /\ thermostat_json.api = "WG4"
  /\ thermostat' = <<from_wg4_json(thermostat_json)>>
  /\ UNCHANGED <<client_vars, schedule_vars, update_vars, clock_now,
                 thermostat_json, thermostat_out>>

\* thermostat.get_target_temperature()
thermostat_get_target_temperature ==
  /\ thermostat # <<>>
  /\ thermostat_out = NoAccess
  /\ \E elapsed \in 0..MaxTicks :
       thermostat_out' =
         LET r == get_target_temperature(
                    thermostat[1], clock_now,
                    [clock_now EXCEPT !.us = clock_now.us + elapsed])
         IN [fn |-> "get_target_temperature", raised |-> r.raised,
             value |-> r.value, elapsed |-> elapsed]
  /\ UNCHANGED <<client_vars, schedule_vars, update_vars, clock_now,
                 thermostat_json, thermostat>>

\* thermostat.get_current_temperature()
thermostat_get_current_temperature ==
  /\ thermostat # <<>>
  /\ thermostat_out = NoAccess
  /\ thermostat_out' =
       LET r == get_current_temperature(thermostat[1]) IN
       [fn |-> "get_current_temperature", raised |-> r.raised,
        value |-> r.value, elapsed |-> 0]
  /\ UNCHANGED <<client_vars, schedule_vars, update_vars, clock_now,
                 thermostat_json, thermostat>>

NextThermostat ==
  \/ thermostat_from_wd5_json
  \/ thermostat_from_wg4_json
  \/ thermostat_get_target_temperature
  \/ thermostat_get_current_temperature

SpecThermostat == InitThermostat /\ [][NextThermostat]_vars

(***************************************************************************)
(* Update requests: update_regulation_mode_body and _params of the two     *)
(* adapters.                                                               *)
(***************************************************************************)
\* Largest number of update requests built for one Thermostat.
MaxBodies == 2

\* Variant: a temperature of 0 counts as supplied.
supplied_or_stored_zero_kept(temperature, stored) ==
  IF temperature = <<>> THEN stored ELSE temperature[1]

\* `temperature or stored`: None and 0 both give the stored value.
supplied_or_stored(temperature, stored) ==
  IF temperature = <<>> \/ temperature = <<0>> THEN stored ELSE temperature[1]

\* _fmt(d): None stays None, a datetime becomes the text of its wall clock.
fmt(d) == IF d = <<>> THEN <<>> ELSE <<strftime(d[1])>>

\* Variant: the duration is taken as seconds.
wd5_comfort_end_time_seconds(t, regulation_mode, duration) ==
  IF regulation_mode = REGULATION_COMFORT
  THEN astimezone(plus_seconds(now_utc, duration))
  ELSE t.comfort_end_time

\* WD5API.update_regulation_mode_body: comfort_end_time
wd5_comfort_end_time(t, regulation_mode, duration) ==
  IF regulation_mode = REGULATION_COMFORT
  THEN astimezone(plus_seconds(now_utc, duration * 60))
  ELSE t.comfort_end_time

\* WD5API.update_regulation_mode_body: boost_end_time
wd5_boost_end_time(t, regulation_mode) ==
  IF regulation_mode = REGULATION_BOOST
  THEN <<astimezone(plus_seconds(now_utc, 3600))>>
  ELSE t.boost_end_time

\* WD5API.update_regulation_mode_body(thermostat, regulation_mode,
\* temperature, duration)
wd5_update_regulation_mode_body(t, regulation_mode, temperature, duration) ==
  LET comfort_temperature ==
        IF regulation_mode = REGULATION_COMFORT
        THEN supplied_or_stored(temperature, t.comfort_temperature)
        ELSE t.comfort_temperature
      manual_temperature ==
        IF regulation_mode = REGULATION_MANUAL
        THEN supplied_or_stored(temperature, t.manual_temperature)
        ELSE t.manual_temperature
  IN [APIKEY |-> "api_key",
      SetGroup |->
        [ExcludeVacationData |-> FALSE,
         GroupId |-> t.zone_id,
         GroupName |-> t.zone_name,
         BoostEndTime |-> fmt(wd5_boost_end_time(t, regulation_mode)),
         ComfortEndTime |->
           fmt(<<wd5_comfort_end_time(t, regulation_mode, duration)>>),
         ComfortSetpoint |-> comfort_temperature,
         LastPrimaryModeIsAuto |-> t.regulation_mode = REGULATION_SCHEDULE,
         ManualModeSetpoint |-> manual_temperature,
         RegulationMode |-> regulation_mode,
         Schedule |-> t.schedule,
         VacationEnabled |-> t.vacation_mode,
         VacationBeginDay |-> fmt(t.vacation_begin_time),
         VacationEndDay |-> fmt(t.vacation_end_time),
         VacationTemperature |-> t.vacation_temperature]]

\* WD5API.update_regulation_mode_params(thermostat): no query parameter.
wd5_update_regulation_mode_params(t) == <<>>

\* end.strftime("%d/%m/%Y %H:%M:00 +00:00")
wg4_strftime(d) ==
  [clock |-> <<d.wall \div 86400, (d.wall \div 3600) % 24,
               (d.wall \div 60) % 60, 0>>,
   offsets |-> <<0>>]

\* Variant: the Comfort fields are sent in Manual mode as well.
wg4_extras_comfort_always(regulation_mode, temperature, duration) ==
  IF regulation_mode \in {REGULATION_MANUAL, REGULATION_COMFORT}
  THEN [ComfortTemperature |-> temperature,
        ComfortEndTime |->
          wg4_strftime(plus_seconds(now_utc, duration * 60))]
  ELSE <<>>

\* WG4API.update_regulation_mode_body: extras
wg4_extras(regulation_mode, temperature, duration) ==
  IF regulation_mode = REGULATION_MANUAL
  THEN [ManualTemperature |-> temperature]
  ELSE IF regulation_mode = REGULATION_COMFORT
  THEN [ComfortTemperature |-> temperature,
        ComfortEndTime |->
          wg4_strftime(plus_seconds(now_utc, duration * 60))]
  ELSE <<>>

\* WG4API.update_regulation_mode_body(thermostat, regulation_mode,
\* temperature, duration)
wg4_update_regulation_mode_body(t, regulation_mode, temperature, duration) ==
  [RegulationMode |-> regulation_mode, VacationEnabled |-> t.vacation_mode]
  @@ wg4_extras(regulation_mode, temperature, duration)

\* WG4API.update_regulation_mode_params(thermostat)
wg4_update_regulation_mode_params(t) == [serialnumber |-> t.serial_number]

\* Variant: the supplied temperature is stored in the Thermostat.
thermostat_after_body_stored(t, regulation_mode, temperature) ==
  IF temperature = <<>> THEN t
  ELSE IF regulation_mode = REGULATION_COMFORT
  THEN [t EXCEPT !.comfort_temperature = temperature[1]]
  ELSE IF regulation_mode = REGULATION_MANUAL
  THEN [t EXCEPT !.manual_temperature = temperature[1]]
  ELSE t

\* The Thermostat after update_regulation_mode_body: the method assigns to
\* local names only.
thermostat_after_body(t, regulation_mode, temperature) == t

\* The UTC offsets ("TimeZone", seconds) of the WD5 items.
TimeZones == {-12600, -3600, 0, 3600, 19800}

\* The WD5 items whose dates are parsed and sent back.
WD5DateItems ==
  {[WD5Item EXCEPT !.TimeZone = o, !.ComfortEndTime = c,
                   !.RegulationMode = m] :
     o \in TimeZones, c \in {<<3, 15, 58, 34>>, <<4, 0, 10, 0>>},
     m \in {REGULATION_SCHEDULE, REGULATION_MANUAL}}

\* The WG4 items that update requests are built for.
WG4UpdateItems ==
  {item \in WG4Items : item.Temperature = 2150 /\ item.SetPointTemp = 2300
                       /\ item.RegulationMode \in {REGULATION_SCHEDULE,
                                                   REGULATION_MANUAL}}

\* The regulation modes a caller asks for.
TargetModes ==
  {REGULATION_SCHEDULE, REGULATION_COMFORT, REGULATION_MANUAL,
   REGULATION_VACATION, REGULATION_BOOST}

\* The UTC offsets of the zone of the system.
LocalZones == {-18000, 0, 3600}

\* The times at which update requests are built: Monday 11:30:35 and
\* 23:50:10.
UpdateNows == {datetime(7, 11, 30, 35, 0), datetime(7, 23, 50, 10, 0)}

\* The temperatures a caller passes: None, 0 or a setpoint.
SuppliedTemperatures == {<<>>, <<0>>, <<2350>>}

\* The durations (minutes) a caller passes.
Durations == {240, 360}

InitUpdate ==
  /\ ClientIdle
  /\ ScheduleIdle
  /\ clock_now \in UpdateNows
  /\ local_zone \in LocalZones
  /\ thermostat_json \in WD5DateItems \cup WG4UpdateItems
  /\ thermostat = <<>>
  /\ thermostat_out = NoAccess
  /\ update_out = NoUpdate

\* WD5API: update_regulation_mode_body and _params for the Thermostat
update_regulation_mode_wd5 ==
  /\ thermostat # <<>>
  /\ update_out.count < MaxBodies
  /\ \E regulation_mode \in TargetModes,
        temperature \in SuppliedTemperatures, duration \in Durations :
       /\ update_out' =
            [count |-> update_out.count + 1, api |-> "WD5",
             regulation_mode |-> regulation_mode,
             temperature |-> temperature, duration |-> duration,
             body |-> wd5_update_regulation_mode_body(
                        thermostat[1], regulation_mode, temperature, duration),
             params |-> wd5_update_regulation_mode_params(thermostat[1])]
       /\ thermostat' =
            <<thermostat_after_body(thermostat[1], regulation_mode,
                                    temperature)>>
  /\ UNCHANGED <<client_vars, schedule_vars, clock_now, local_zone,
                 thermostat_json, thermostat_out>>

\* WG4API: update_regulation_mode_body and _params for the Thermostat
update_regulation_mode_wg4 ==
  /\ thermostat # <<>>
  /\ update_out.count < MaxBodies
  /\ \E regulation_mode \in TargetModes,
        temperature \in SuppliedTemperatures, duration \in Durations :
       /\ update_out' =
            [count |-> update_out.count + 1, api |-> "WG4",
             regulation_mode |-> regulation_mode,
             temperature |-> temperature, duration |-> duration,
             body |-> wg4_update_regulation_mode_body(
                        thermostat[1], regulation_mode, temperature, duration),
             params |-> wg4_update_regulation_mode_params(thermostat[1])]
       /\ thermostat' =
            <<thermostat_after_body(thermostat[1], regulation_mode,
                                    temperature)>>
  /\ UNCHANGED <<client_vars, schedule_vars, clock_now, local_zone,
                 thermostat_json, thermostat_out>>

NextUpdate ==
  \/ thermostat_from_wd5_json
  \/ thermostat_from_wg4_json
  \/ update_regulation_mode_wd5
  \/ update_regulation_mode_wg4

SpecUpdate == InitUpdate /\ [][NextUpdate]_vars

(***************************************************************************)
(* The transport.                                                          *)
(***************************************************************************)
\* The owned transport has been closed; aiohttp refuses requests on it.
transport_closed == http_session = "internal" /\ http_closes > 0

\* The answers a request of the given kind can get.
Answers(kind) ==
  IF transport_closed
  THEN {[kind |-> kind, outcome |-> "closed", ct |-> "", data |-> NoData]}
  ELSE {[kind |-> kind, outcome |-> o, ct |-> "", data |-> NoData] :
           o \in TransportOutcomes \ {"response"}}
       \cup {[kind |-> kind, outcome |-> "response", ct |-> t, data |-> NoData] :
               t \in {c \in ContentTypes : ~is_json_content_type(c)}}
       \cup {[kind |-> kind, outcome |-> "response", ct |-> t, data |-> d] :
               t \in {c \in ContentTypes : is_json_content_type(c)},
               d \in ResponseData(kind, api)}

(***************************************************************************)
(* Initial state: the client as __init__ leaves it.                        *)
(***************************************************************************)
Init ==
  /\ api \in Adapters
  /\ http_session \in {"None", "external"}
  /\ close_http_session = FALSE
  /\ http_closes = 0
  /\ session_id = None
  /\ session_calls_left = 0
  /\ pc = [c \in Contexts |-> "idle"]
  /\ op = [c \in Contexts |-> "none"]
  /\ inflight = [c \in Contexts |-> NoRequest]
  /\ result = [c \in Contexts |-> NoResult]
  /\ at_call = [c \in Contexts |->
                  [calls_left |-> 0, session_id |-> None, owned |-> FALSE]]
  /\ sent = [c \in Contexts |-> <<>>]
  /\ last_resp = [c \in Contexts |-> NoResponse]
  /\ login_resp = [c \in Contexts |-> NoResponse]
  /\ last_login_token = None
  /\ used = 0
  /\ ModelsIdle

\* Variant: a closed transport is replaced by a new one as well.
creates_session_when_closed(transport, closed) == transport = "None" \/ closed

\* _request: `if self.__http_session is None`, the only test before a
\* ClientSession is created; whether the transport is closed is not looked at.
creates_session(transport, closed) == transport = "None"

(***************************************************************************)
(* _request up to the point where it awaits the response.                  *)
(*   calls, sid, cnt, log: the counter, the token, the number of requests  *)
(*   of the session and the call's requests as they are when _request is   *)
(*   entered (login() may have changed them in the same step).             *)
(***************************************************************************)
request_dispatch(c, kind, calls, sid, cnt, log) ==
  LET req == [kind |-> kind,
              sessionid |-> IF kind = "login" THEN None ELSE sid,
              held |-> sid, before |-> calls]
  IN
  /\ http_session' =
       IF creates_session(http_session, transport_closed)
       THEN "internal" ELSE http_session
  /\ close_http_session' =
       IF creates_session(http_session, transport_closed)
       THEN TRUE ELSE close_http_session
  /\ session_calls_left' = calls_after_dispatch(calls)
  /\ inflight' = [inflight EXCEPT ![c] = req]
  /\ sent' = [sent EXCEPT ![c] = Append(log, req)]
  /\ used' = IF kind = "login" THEN cnt ELSE cnt + 1
  /\ pc' = [pc EXCEPT ![c] =
              CASE kind = "login" -> "login_wait"
                [] kind = "list" -> "list_wait"
                [] OTHER -> "update_wait"]
  /\ UNCHANGED http_closes

\* A call begins in context c.
begin_call(c, name) ==
  /\ pc[c] = "idle"
  /\ session_calls_left > -MaxOverdraft
  /\ op' = [op EXCEPT ![c] = name]
  /\ at_call' = [at_call EXCEPT ![c] =
                   [calls_left |-> session_calls_left,
                    session_id |-> session_id,
                    owned |-> close_http_session]]
  /\ last_resp' = [last_resp EXCEPT ![c] = NoResponse]
  /\ login_resp' = [login_resp EXCEPT ![c] = NoResponse]
  /\ UNCHANGED model_vars

\* A call ends in context c: it returns or raises.
end_call(c, status, thermostats, value) ==
  /\ pc' = [pc EXCEPT ![c] = "idle"]
  /\ inflight' = [inflight EXCEPT ![c] = NoRequest]
  /\ result' = [result EXCEPT ![c] =
                  [status |-> status, thermostats |-> thermostats,
                   value |-> value]]

\* Variant: a rejected login is tried again instead of being raised.
login_raise_retry(c) ==
  /\ request_dispatch(c, "login", session_calls_left, session_id, used,
                      sent[c])
  /\ UNCHANGED <<result, session_id, last_login_token>>

\* login(): the authentication error is raised to the caller.
login_raise(c) ==
  /\ end_call(c, "OJMicrolineAuthError", <<>>, FALSE)
  /\ UNCHANGED <<client, sent, last_login_token, used>>

(***************************************************************************)
(* login()                                                                 *)
(***************************************************************************)
login(c) ==
  /\ begin_call(c, "login")
  /\ IF login_required(session_calls_left, session_id)
     THEN /\ request_dispatch(c, "login", session_calls_left, session_id,
                              used, <<>>)
          /\ result' = [result EXCEPT ![c] = NoResult]
          /\ UNCHANGED <<api, session_id, last_login_token>>
     ELSE /\ end_call(c, "returned", <<>>, FALSE)
          /\ sent' = [sent EXCEPT ![c] = <<>>]
          /\ UNCHANGED <<api, client, last_login_token, used>>

(***************************************************************************)
(* get_thermostats() up to its first suspension.                           *)
(***************************************************************************)
get_thermostats(c) ==
  /\ begin_call(c, "get_thermostats")
  /\ result' = [result EXCEPT ![c] = NoResult]
  /\ IF login_required(session_calls_left, session_id)
     THEN request_dispatch(c, "login", session_calls_left, session_id,
                           used, <<>>)
     ELSE request_dispatch(c, "list", session_calls_left, session_id,
                           used, <<>>)
  /\ UNCHANGED <<api, session_id, last_login_token>>

(***************************************************************************)
(* set_regulation_mode() up to its first suspension.                       *)
(***************************************************************************)
set_regulation_mode(c) ==
  /\ begin_call(c, "set_regulation_mode")
  /\ result' = [result EXCEPT ![c] = NoResult]
  /\ IF set_regulation_mode_calls_login(session_id)
     THEN IF login_required(session_calls_left, session_id)
          THEN request_dispatch(c, "login", session_calls_left, session_id,
                                used, <<>>)
          ELSE request_dispatch(c, "update", session_calls_left, session_id,
                                used, <<>>)
     ELSE request_dispatch(c, "update", session_calls_left, session_id,
                           used, <<>>)
  /\ UNCHANGED <<api, session_id, last_login_token>>

(***************************************************************************)
(* The login request is answered: the rest of _request and of login(),     *)
(* and of the method that awaited login() up to its next suspension.       *)
(***************************************************************************)
login_response(c) ==
  /\ pc[c] = "login_wait"
  /\ \E a \in Answers("login") :
       LET r == request_result(a.outcome, a.ct) IN
       /\ last_resp' = [last_resp EXCEPT ![c] = a]
       /\ login_resp' = [login_resp EXCEPT ![c] = a]
       /\ IF r # "data"
          THEN /\ end_call(c, r, <<>>, FALSE)
               /\ UNCHANGED <<client, sent, last_login_token, used>>
          ELSE IF login_failed(a.data)
          THEN login_raise(c)
          ELSE /\ session_id' = a.data.SessionId
               /\ last_login_token' = a.data.SessionId
               /\ CASE op[c] = "login" ->
                         /\ session_calls_left' = session_calls
                         /\ used' = 0
                         /\ end_call(c, "returned", <<>>, FALSE)
                         /\ UNCHANGED <<http_session, close_http_session,
                                        http_closes, sent>>
                    [] op[c] = "get_thermostats" ->
                         /\ request_dispatch(c, "list", session_calls,
                                             a.data.SessionId, 0, sent[c])
                         /\ UNCHANGED result
                    [] OTHER ->
                         /\ request_dispatch(c, "update", session_calls,
                                             a.data.SessionId, 0, sent[c])
                         /\ UNCHANGED result
  /\ UNCHANGED <<api, op, at_call>>
  /\ UNCHANGED model_vars

(***************************************************************************)
(* The list request is answered: the rest of get_thermostats().            *)
(***************************************************************************)
list_response(c) ==
  /\ pc[c] = "list_wait"
  /\ \E a \in Answers("list") :
       LET r == request_result(a.outcome, a.ct) IN
       /\ last_resp' = [last_resp EXCEPT ![c] = a]
       /\ IF r # "data"
          THEN end_call(c, r, <<>>, FALSE)
          ELSE IF parse_thermostats_status(api, a.data) # "returned"
          THEN end_call(c, parse_thermostats_status(api, a.data), <<>>, FALSE)
          ELSE end_call(c, "returned", parse_groups(a.data.Groups), FALSE)
  /\ UNCHANGED <<api, client, op, at_call, sent, login_resp,
                 last_login_token, used>>
  /\ UNCHANGED model_vars

(***************************************************************************)
(* The update request is answered: the rest of set_regulation_mode().      *)
(***************************************************************************)
update_response(c) ==
  /\ pc[c] = "update_wait"
  /\ \E a \in Answers("update") :
       LET r == request_result(a.outcome, a.ct) IN
       /\ last_resp' = [last_resp EXCEPT ![c] = a]
       /\ IF r # "data"
          THEN end_call(c, r, <<>>, FALSE)
          ELSE IF ~parse_update_regulation_mode_response(api, a.data)
          THEN end_call(c, "OJMicrolineError", <<>>, FALSE)
          ELSE end_call(c, "returned", <<>>, TRUE)
  /\ UNCHANGED <<api, client, op, at_call, sent, login_resp,
                 last_login_token, used>>
  /\ UNCHANGED model_vars

\* Variant: close() closes whatever transport the client has.
close_owned_any(transport, owned) == transport # "None"

\* close(): the client has a transport and owns it.
close_owned(transport, owned) == transport # "None" /\ owned

(***************************************************************************)
(* close()                                                                 *)
(***************************************************************************)
close(c) ==
  /\ pc[c] = "idle"
  /\ op' = [op EXCEPT ![c] = "close"]
  /\ at_call' = [at_call EXCEPT ![c] =
                   [calls_left |-> session_calls_left,
                    session_id |-> session_id,
                    owned |-> close_http_session]]
  /\ last_resp' = [last_resp EXCEPT ![c] = NoResponse]
  /\ login_resp' = [login_resp EXCEPT ![c] = NoResponse]
  /\ sent' = [sent EXCEPT ![c] = <<>>]
  /\ IF close_owned(http_session, close_http_session)
     THEN /\ close_http_session' = FALSE
          /\ session_id' = None
          /\ http_closes' = http_closes + 1
          /\ used' = 0
     ELSE UNCHANGED <<close_http_session, session_id, http_closes, used>>
  /\ end_call(c, "returned", <<>>, FALSE)
  /\ UNCHANGED <<api, http_session, session_calls_left, last_login_token>>
  /\ UNCHANGED model_vars

(***************************************************************************)
(* Serial use of one client: every call is awaited before the next.        *)
(***************************************************************************)
Next ==
  \E c \in SerialContexts :
    \/ login(c)
    \/ get_thermostats(c)
    \/ set_regulation_mode(c)
    \/ login_response(c)
    \/ list_response(c)
    \/ update_response(c)
    \/ close(c)

Spec == Init /\ [][Next]_vars

(***************************************************************************)
(* Concurrent use of one client that holds no session: two contexts call   *)
(* get_thermostats() with no serialization; their steps interleave where   *)
(* _request awaits.                                                        *)
(***************************************************************************)
\* The client holds no session: the state in which the calls are started.
holds_no_session == session_id = None

NextConcurrent ==
  \E c \in Contexts :
    \/ holds_no_session /\ get_thermostats(c)
    \/ login_response(c)
    \/ list_response(c)

SpecConcurrent == Init /\ [][NextConcurrent]_vars

(***************************************************************************)
(* Vocabulary of the properties.                                           *)
(***************************************************************************)
\* The session is missing or used up: the counter is 0 or no token is held.
SessionInvalid(s) == s.session_id = None \/ s.calls_left = 0

\* The transport delivered a JSON document for the request.
Delivered(a) == a.outcome = "response" /\ a.ct \in JsonContentTypes

\* The kinds of the requests a call has dispatched, in order.
Kinds(c) == [i \in 1..Len(sent[c]) |-> sent[c][i].kind]

\* The statuses with which a call raises.
ErrorStatuses == {"OJMicrolineAuthError", "OJMicrolineTimeoutError",
                  "OJMicrolineConnectionError", "OJMicrolineError",
                  "OJMicrolineResultsError", "RuntimeError"}

\* The login request of the call did not yield a session.
LoginRequestFailed(c) ==
  /\ login_resp[c].kind = "login"
  /\ \/ ~Delivered(login_resp[c])
     \/ login_resp[c].data.ErrorCode = FailureCode

(***************************************************************************)
(* C1: for either adapter, when login() is called with no token held or    *)
(* with the counter at 0 and the server answers with an error code other   *)
(* than the failure code, login() returns with the counter at the budget   *)
(* 300 and the token equal to the SessionId of that answer.                *)
(***************************************************************************)
C1_LoginSuccess ==
  \A c \in Contexts :
    ( /\ op[c] = "login" /\ pc[c] = "idle"
      /\ SessionInvalid(at_call[c])
      /\ Delivered(login_resp[c])
      /\ login_resp[c].data.ErrorCode # FailureCode )
    => /\ result[c].status = "returned"
       /\ session_calls_left = 300
       /\ session_id = login_resp[c].data.SessionId

\* A WG4 client whose login was answered with the nonzero error code 2.
C1_Witness ==
  \E c \in Contexts :
    /\ api = "WG4" /\ op[c] = "login" /\ pc[c] = "idle"
    /\ SessionInvalid(at_call[c])
    /\ Delivered(login_resp[c])
    /\ login_resp[c].data.ErrorCode = 2
    /\ session_id = "s2"

(***************************************************************************)
(* C2: when login() is called on a fresh client (counter 0, no token) and  *)
(* the server answers with ErrorCode 1, login() raises the authentication  *)
(* error and leaves the counter at -1 and no token.                        *)
(***************************************************************************)
C2_LoginFailedFresh ==
  \A c \in Contexts :
    ( /\ op[c] = "login" /\ pc[c] = "idle"
      /\ at_call[c].calls_left = 0 /\ at_call[c].session_id = None
      /\ Delivered(login_resp[c])
      /\ login_resp[c].data.ErrorCode = 1 )
    => /\ result[c].status = "OJMicrolineAuthError"
       /\ session_calls_left = -1
       /\ session_id = None

\* A fresh client whose login was answered with ErrorCode 1.
C2_Witness ==
  \E c \in Contexts :
    /\ op[c] = "login" /\ pc[c] = "idle"
    /\ at_call[c].calls_left = 0 /\ at_call[c].session_id = None
    /\ Delivered(login_resp[c])
    /\ login_resp[c].data.ErrorCode = 1
    /\ result[c].status = "OJMicrolineAuthError"

(***************************************************************************)
(* C3: after any login() call that raises the authentication error no      *)
(* token is held, also when the login was a re-login made because the      *)
(* counter reached 0 while an earlier token was still held.                *)
(***************************************************************************)
C3_AuthErrorClearsSession ==
  \A c \in Contexts :
    (pc[c] = "idle" /\ result[c].status = "OJMicrolineAuthError")
    => session_id = None

(***************************************************************************)
(* C4: get_thermostats() sends a login request before its list request     *)
(* exactly when, at the time of the call, no token is held or the counter  *)
(* is 0; otherwise it sends only the list request and the token is left    *)
(* unchanged.  The sessionid parameter of the list request is the token    *)
(* returned by the most recent successful login.                           *)
(***************************************************************************)
C4_GetThermostatsLogin ==
  \A c \in Contexts :
    op[c] = "get_thermostats" =>
      /\ Len(sent[c]) >= 1
      /\ (sent[c][1].kind = "login") <=> SessionInvalid(at_call[c])
      /\ ~SessionInvalid(at_call[c]) =>
           /\ Kinds(c) = <<"list">>
           /\ session_id = at_call[c].session_id
      /\ \A i \in 1..Len(sent[c]) :
           sent[c][i].kind = "list" =>
             /\ sent[c][i].sessionid = last_login_token
             /\ sent[c][i].sessionid # None
             /\ i = 2 => sent[c][1].kind = "login"

\* A get_thermostats() call that found no token after a failed login (the
\* counter at -1), logged in and then sent its list request.
C4_Witness ==
  \E c \in Contexts :
    /\ op[c] = "get_thermostats"
    /\ Kinds(c) = <<"login", "list">>
    /\ at_call[c].session_id = None
    /\ at_call[c].calls_left = -1
    /\ sent[c][2].sessionid = "s1"

(***************************************************************************)
(* C5: set_regulation_mode() ensures login: whenever it is called while no *)
(* token is held or while the counter is 0, a login request is sent and    *)
(* completes before the update request is sent.                            *)
(***************************************************************************)
C5_SetRegulationModeLogin ==
  \A c \in Contexts :
    (op[c] = "set_regulation_mode" /\ SessionInvalid(at_call[c]))
    => /\ Len(sent[c]) >= 1
       /\ sent[c][1].kind = "login"

(***************************************************************************)
(* C6: session budget: at most 300 list/update requests are sent carrying  *)
(* the same session token; the next one is preceded by a new login.        *)
(***************************************************************************)
C6_SessionBudget == used <= 300

(***************************************************************************)
(* C7: every request dispatched by _request lowers the counter by exactly  *)
(* one before the call is sent and the decrement is never undone: while    *)
(* the request is awaited, and after it succeeded, timed out, failed at    *)
(* transport level, returned a non-JSON content type or a vendor failure   *)
(* code, the counter is the counter before the request minus one.          *)
(***************************************************************************)
C7_DecrementKept ==
  \A c \in Contexts :
    (Len(sent[c]) >= 1 /\ op[c] # "close") =>
      LET last == sent[c][Len(sent[c])] IN
      ( \/ pc[c] # "idle"
        \/ last.kind # "login"
        \/ result[c].status # "returned" )
      => session_calls_left = last.before - 1

\* A list call made with the counter at 300 failed with the vendor failure
\* code and left 299.
C7_Witness ==
  \E c \in Contexts :
    /\ op[c] = "get_thermostats" /\ pc[c] = "idle"
    /\ Kinds(c) = <<"list">>
    /\ sent[c][1].before = 300
    /\ result[c].status = "OJMicrolineResultsError"
    /\ session_calls_left = 299

(***************************************************************************)
(* C8: transport failures are classified at the dispatch point: a timeout  *)
(* raises the timeout error; a client error, an HTTP error status or a DNS *)
(* failure raises the connection error; a response whose Content-Type does *)
(* not contain application/json raises the generic error.  The three are   *)
(* distinct and each leaves the held token unchanged.                      *)
(***************************************************************************)
C8_Classified(c) ==
  LET a == last_resp[c] IN
  CASE a.outcome = "timeout" -> "OJMicrolineTimeoutError"
    [] a.outcome \in {"client_error", "http_status", "dns"} ->
         "OJMicrolineConnectionError"
    [] a.outcome = "response" /\ a.ct \notin JsonContentTypes ->
         "OJMicrolineError"
    [] OTHER -> "none"

C8_TransportFailures ==
  \A c \in Contexts :
    (pc[c] = "idle" /\ C8_Classified(c) # "none") =>
      /\ result[c].status = C8_Classified(c)
      /\ Len(sent[c]) >= 1
      /\ session_id = sent[c][Len(sent[c])].held
      /\ Cardinality({request_result("timeout", ""),
                      request_result("dns", ""),
                      request_result("response", "text/html")}) = 3

\* An update request that timed out while a token was held.
C8_Witness ==
  \E c \in Contexts :
    /\ pc[c] = "idle" /\ op[c] = "set_regulation_mode"
    /\ last_resp[c].kind = "update"
    /\ last_resp[c].outcome = "timeout"
    /\ result[c].status = "OJMicrolineTimeoutError"
    /\ session_id = "s1"

(***************************************************************************)
(* C9: a Family A list response carrying the failure code makes            *)
(* get_thermostats() raise the results error and return no devices; an     *)
(* update response the adapter rejects (Family A: ErrorCode 1; Family B:   *)
(* Success false) makes set_regulation_mode() raise the generic error, and *)
(* in every other case set_regulation_mode() returns True.                 *)
(***************************************************************************)
C9_VendorFailures ==
  \A c \in Contexts :
    /\ ( /\ op[c] = "get_thermostats" /\ pc[c] = "idle" /\ api = "WD5"
         /\ last_resp[c].kind = "list" /\ Delivered(last_resp[c])
         /\ last_resp[c].data.ErrorCode = FailureCode )
       => /\ result[c].status = "OJMicrolineResultsError"
          /\ result[c].thermostats = <<>>
    /\ ( /\ op[c] = "set_regulation_mode" /\ pc[c] = "idle"
         /\ last_resp[c].kind = "update" /\ Delivered(last_resp[c]) )
       => IF \/ api = "WD5" /\ last_resp[c].data.ErrorCode = 1
             \/ api = "WG4" /\ ~last_resp[c].data.Success
          THEN result[c].status = "OJMicrolineError"
          ELSE result[c].status = "returned" /\ result[c].value = TRUE

\* A Family A update answered with the nonzero error code 2 returned True.
C9_Witness ==
  \E c \in Contexts :
    /\ op[c] = "set_regulation_mode" /\ pc[c] = "idle" /\ api = "WD5"
    /\ last_resp[c].kind = "update" /\ Delivered(last_resp[c])
    /\ last_resp[c].data.ErrorCode = 2
    /\ result[c].value = TRUE

(***************************************************************************)
(* C10: no retries: one call of login(), get_thermostats() or              *)
(* set_regulation_mode() sends at most one login request and at most one   *)
(* list/update request; if its login request fails, the error surfaces to  *)
(* the caller and no list/update request is sent in that call.             *)
(***************************************************************************)
C10_NoRetries ==
  \A c \in Contexts :
    /\ Cardinality({i \in 1..Len(sent[c]) : sent[c][i].kind = "login"}) <= 1
    /\ Cardinality({i \in 1..Len(sent[c]) : sent[c][i].kind # "login"}) <= 1
    /\ LoginRequestFailed(c) =>
         /\ pc[c] = "idle"
         /\ result[c].status \in ErrorStatuses
         /\ Kinds(c) = <<"login">>

\* A set_regulation_mode() call whose login was rejected by the server.
C10_Witness ==
  \E c \in Contexts :
    /\ op[c] = "set_regulation_mode" /\ pc[c] = "idle"
    /\ LoginRequestFailed(c)
    /\ login_resp[c].data.ErrorCode = FailureCode
    /\ Delivered(login_resp[c])
    /\ Kinds(c) = <<"login">>

(***************************************************************************)
(* C11: transport ownership: a transport supplied to the constructor is    *)
(* never closed by the client; a transport created internally by the       *)
(* first request is closed by the first close() after its creation, and    *)
(* further close() calls do not close it again.                            *)
(***************************************************************************)
C11_TransportOwnership ==
  /\ http_session = "external" => http_closes = 0
  /\ http_session = "None" => http_closes = 0
  /\ http_closes <= 1
  /\ \A c \in Contexts :
       (op[c] = "close" /\ pc[c] = "idle" /\ http_session = "internal")
       => http_closes = 1

\* A second close() on an internally created transport that the first
\* close() had already closed.
C11_Witness ==
  \E c \in Contexts :
    /\ op[c] = "close" /\ pc[c] = "idle"
    /\ http_session = "internal"
    /\ ~at_call[c].owned
    /\ http_closes = 1

(***************************************************************************)
(* C12: the session is cleared on close: after close() returns no token is *)
(* held and the owned flag is false, whether the transport was supplied    *)
(* externally or created internally and whether or not a login succeeded.  *)
(***************************************************************************)
C12_CloseClearsSession ==
  \A c \in Contexts :
    (op[c] = "close" /\ pc[c] = "idle")
    => session_id = None /\ ~close_http_session


(***************************************************************************)
(* Schedule claims.                                                        *)
(***************************************************************************)
\* The canonical day the specification gives for each vendor day code 0..6.
CanonicalDayTable == <<6, 0, 1, 2, 3, 4, 5>>

\* The temperatures of a list of built events, in order.
Temperatures(events) == [i \in DOMAIN events |-> events[i].temperature]

\* The temperatures of the active events of a bucket, in source order.
ActiveTemperatures(events) ==
  LET kept == SelectSeq(events, LAMBDA e : e.Active = TRUE) IN
  [i \in DOMAIN kept |-> kept[i].Temperature]

\* The bucket at i is the last one of the document with its day code.
LastOfCode(i) ==
  \A j \in DOMAIN json_doc :
    j > i => json_doc[j].WeekDayGrpNo # json_doc[i].WeekDayGrpNo

\* C13: a built schedule has exactly the canonical days of the document's
\* day codes (0 -> 6, 1 -> 0, N >= 2 -> N - 1), and the events of each
\* day-bucket are stored under the canonical day of its code.
C13_DayCodeNormalization ==
  schedule_days.built =>
    /\ DOMAIN schedule_days.days =
         {CanonicalDayTable[json_doc[i].WeekDayGrpNo + 1] : i \in DOMAIN json_doc}
    /\ \A i \in DOMAIN json_doc :
         LastOfCode(i) =>
           Temperatures(
             schedule_days.days[CanonicalDayTable[json_doc[i].WeekDayGrpNo + 1]])
           = ActiveTemperatures(json_doc[i].Events)

\* C13 witness: a schedule built from a Monday bucket (code 1) and a bucket
\* of a code above 1, each with active events, found under days 0 and N - 1.
C13_Witness ==
  /\ schedule_days.built
  /\ \E i, j \in DOMAIN json_doc :
       /\ json_doc[i].WeekDayGrpNo = 1
       /\ json_doc[j].WeekDayGrpNo >= 2
       /\ schedule_days.days[0] # <<>>
       /\ schedule_days.days[json_doc[j].WeekDayGrpNo - 1] # <<>>
       /\ Temperatures(schedule_days.days[0])
            # Temperatures(schedule_days.days[json_doc[j].WeekDayGrpNo - 1])


\* The timestamp a is at or before the time b.
AtOrBefore(a, b) ==
  \/ seconds_of(a) < seconds_of(b)
  \/ seconds_of(a) = seconds_of(b) /\ a.us <= b.us

\* The positions of today's list whose event has a timestamp at or before now.
Qualifying ==
  LET today == schedule_days.days[weekday(clock_now)] IN
  {i \in DOMAIN today : AtOrBefore(today[i].date, clock_now)}

\* The last qualifying position of today's list.
LastQualifying == CHOOSE i \in Qualifying : \A j \in Qualifying : j <= i

\* get_active_temperature has been evaluated on a schedule with a list for
\* today.
ActiveEvaluated ==
  /\ schedule_out.fn = "get_active_temperature"
  /\ weekday(clock_now) \in DOMAIN schedule_days.days

\* C14: when at least one event of today's list has a timestamp at or before
\* now, get_active_temperature returns the temperature of the last such event
\* in stored order (for the legal, nonzero temperatures).
C14_LastQualifyingEvent ==
  (/\ ActiveEvaluated
   /\ Qualifying # {}
   /\ schedule_days.days[weekday(clock_now)][LastQualifying].temperature # 0)
  => /\ schedule_out.raised = "none"
     /\ schedule_out.value =
          schedule_days.days[weekday(clock_now)][LastQualifying].temperature


\* Yesterday's canonical day, (d - 1) mod 7.
Yesterday == (weekday(clock_now) + 6) % 7

\* Yesterday has a list with at least one event.
YesterdayListed ==
  /\ Yesterday \in DOMAIN schedule_days.days
  /\ schedule_days.days[Yesterday] # <<>>

\* C15: when no event of today's list has a timestamp at or before now,
\* get_active_temperature returns the temperature of the last event of
\* yesterday's list, yesterday being (d - 1) mod 7 (Sunday on a Monday).
C15_DayRollover ==
  (ActiveEvaluated /\ Qualifying = {} /\ YesterdayListed)
  => /\ schedule_out.raised = "none"
     /\ schedule_out.value =
          schedule_days.days[Yesterday][Len(schedule_days.days[Yesterday])].temperature

\* C15 witness: on a Monday before today's only event, with a Sunday list of
\* two different temperatures, the result is Sunday's last temperature and
\* differs from Sunday's first, from today's first and from 0.
C15_Witness ==
  /\ ActiveEvaluated /\ Qualifying = {} /\ YesterdayListed
  /\ weekday(clock_now) = 0 /\ Yesterday = 6
  /\ schedule_days.days[0] # <<>>
  /\ Len(schedule_days.days[6]) = 2
  /\ schedule_out.value = schedule_days.days[6][2].temperature
  /\ schedule_out.value # schedule_days.days[6][1].temperature
  /\ schedule_out.value # schedule_days.days[0][1].temperature
  /\ schedule_out.value # 0


\* The temperatures of all events of all days of the built schedule.
AllTemperatures ==
  UNION {{schedule_days.days[d][i].temperature :
            i \in DOMAIN schedule_days.days[d]} :
         d \in DOMAIN schedule_days.days}

\* C16: get_lowest_temperature returns the minimum temperature over every
\* event of every day, and 0, without failing, when there is no event.
C16_LowestTemperature ==
  schedule_out.fn = "get_lowest_temperature"
  => /\ schedule_out.raised = "none"
     /\ AllTemperatures = {} => schedule_out.value = 0
     /\ AllTemperatures # {} =>
          /\ schedule_out.value \in AllTemperatures
          /\ \A t \in AllTemperatures : schedule_out.value <= t

\* C16 witness: a schedule of two days whose lowest temperature is neither
\* the first event of the schedule nor the highest temperature in it.
C16_Witness ==
  /\ schedule_out.fn = "get_lowest_temperature"
  /\ Cardinality(DOMAIN schedule_days.days) = 2
  /\ \A d \in DOMAIN schedule_days.days :
       /\ schedule_days.days[d] # <<>>
       /\ schedule_days.days[d][1].temperature > schedule_out.value
  /\ schedule_out.value \in AllTemperatures


\* The active events of a bucket, in source order.
ActiveEvents(events) == SelectSeq(events, LAMBDA e : e.Active = TRUE)

\* C17: for every day-bucket (the last of its code), the built list of its
\* canonical day holds exactly the active events in source order, each at
\* the reference date with the event's clock, moved by (canonical day -
\* weekday of the reference date) days, and so on weekday d.
C17_ScheduleBuild ==
  schedule_days.built =>
    \A i \in DOMAIN json_doc :
      LastOfCode(i) =>
        LET d == CanonicalDayTable[json_doc[i].WeekDayGrpNo + 1]
            kept == ActiveEvents(json_doc[i].Events)
            built == schedule_days.days[d]
            ref == schedule_days.at
        IN /\ Len(built) = Len(kept)
           /\ \A k \in DOMAIN kept :
                /\ built[k].temperature = kept[k].Temperature
                /\ built[k].date.day = ref.day + (d - weekday(ref))
                /\ <<built[k].date.hour, built[k].date.minute,
                     built[k].date.second>> = kept[k].Clock
                /\ built[k].date.us = ref.us
                /\ weekday(built[k].date) = d

\* C17 witness: a bucket whose first event is inactive and whose second is
\* active, built on a Tuesday for Monday and so moved one day back.
C17_Witness ==
  /\ schedule_days.built
  /\ weekday(schedule_days.at) = 1
  /\ \E i \in DOMAIN json_doc :
       /\ LastOfCode(i)
       /\ json_doc[i].WeekDayGrpNo = 1
       /\ Len(json_doc[i].Events) = 2
       /\ ~json_doc[i].Events[1].Active
       /\ json_doc[i].Events[2].Active
       /\ Len(schedule_days.days[0]) = 1
       /\ schedule_days.days[0][1].date.day = schedule_days.at.day - 1
       /\ schedule_days.days[0][1].temperature = json_doc[i].Events[2].Temperature


(***************************************************************************)
(* Thermostat claims.                                                      *)
(***************************************************************************)
\* The value of a stored setpoint, an unset one counting as 0.
Setpoint(x) == IF x = <<>> THEN 0 ELSE x[1]

\* The regulation modes the library knows.
KnownRegulationModes ==
  {REGULATION_SCHEDULE, REGULATION_COMFORT, REGULATION_MANUAL,
   REGULATION_VACATION, REGULATION_FROST_PROTECTION, REGULATION_BOOST,
   REGULATION_ECO}

\* The schedule embedded in the device, built when the accessor was called.
EmbeddedSchedule == from_json(thermostat[1].schedule[1], clock_now)

\* The time at which the accessor evaluated the schedule.
EvaluatedAt == [clock_now EXCEPT !.us = clock_now.us + thermostat_out.elapsed]

\* get_target_temperature was called on a device without a set-point field
\* in the given mode.
TargetInMode(mode) ==
  /\ thermostat_out.fn = "get_target_temperature"
  /\ thermostat[1].set_point_temperature = <<>>
  /\ thermostat[1].regulation_mode = mode

\* C18: get_target_temperature returns the set-point field of a device that
\* has one; otherwise Schedule mode gives the embedded schedule's active
\* temperature, Comfort, Manual, Vacation, FrostProtection and Boost the
\* matching setpoint (unset as 0), Eco the embedded schedule's lowest
\* temperature, and any other mode 0.
C18_TargetDispatch ==
  /\ (/\ thermostat_out.fn = "get_target_temperature"
      /\ thermostat[1].set_point_temperature # <<>>)
     => thermostat_out.value = thermostat[1].set_point_temperature[1]
  /\ (TargetInMode(REGULATION_SCHEDULE) /\ thermostat[1].schedule # <<>>)
     => LET r == get_active_temperature(EmbeddedSchedule, EvaluatedAt) IN
        /\ thermostat_out.raised = r.raised
        /\ thermostat_out.value = r.value
  /\ TargetInMode(REGULATION_COMFORT)
     => thermostat_out.value = thermostat[1].comfort_temperature
  /\ TargetInMode(REGULATION_MANUAL)
     => thermostat_out.value = thermostat[1].manual_temperature
  /\ TargetInMode(REGULATION_VACATION)
     => thermostat_out.value = Setpoint(thermostat[1].vacation_temperature)
  /\ TargetInMode(REGULATION_FROST_PROTECTION)
     => thermostat_out.value =
          Setpoint(thermostat[1].frost_protection_temperature)
  /\ TargetInMode(REGULATION_BOOST)
     => thermostat_out.value = Setpoint(thermostat[1].boost_temperature)
  /\ (TargetInMode(REGULATION_ECO) /\ thermostat[1].schedule # <<>>)
     => thermostat_out.value = get_lowest_temperature(EmbeddedSchedule)
  /\ (/\ thermostat_out.fn = "get_target_temperature"
      /\ thermostat[1].set_point_temperature = <<>>
      /\ thermostat[1].regulation_mode \notin KnownRegulationModes)
     => thermostat_out.value = 0

\* C18 witness: a WG4 device in Comfort mode whose set-point field differs
\* from its comfort setpoint, and the set-point field was returned.
C18_Witness ==
  /\ thermostat_out.fn = "get_target_temperature"
  /\ thermostat_json.api = "WG4"
  /\ thermostat[1].regulation_mode = REGULATION_COMFORT
  /\ thermostat[1].set_point_temperature # <<thermostat[1].comfort_temperature>>
  /\ thermostat_out.value = thermostat[1].set_point_temperature[1]
  /\ thermostat_out.value # 0


\* get_current_temperature was called on a device without a unified
\* temperature field and with the given sensor mode.
CurrentWithSensor(mode) ==
  /\ thermostat_out.fn = "get_current_temperature"
  /\ thermostat[1].temperature = <<>>
  /\ thermostat[1].sensor_mode = <<mode>>

\* C19: get_current_temperature returns the unified temperature field of a
\* device that has one; otherwise sensor mode Room gives the room
\* temperature, Floor the floor temperature, Room+Floor
\* (floor + room + 1) div 2, and any other sensor mode 0.
C19_CurrentDispatch ==
  thermostat_out.fn = "get_current_temperature"
  => /\ thermostat_out.raised = "none"
     /\ thermostat[1].temperature # <<>>
        => thermostat_out.value = thermostat[1].temperature[1]
     /\ CurrentWithSensor(SENSOR_ROOM)
        => thermostat_out.value = Setpoint(thermostat[1].temperature_room)
     /\ CurrentWithSensor(SENSOR_FLOOR)
        => thermostat_out.value = Setpoint(thermostat[1].temperature_floor)
     /\ CurrentWithSensor(SENSOR_ROOM_FLOOR)
        => thermostat_out.value =
             (Setpoint(thermostat[1].temperature_floor)
              + Setpoint(thermostat[1].temperature_room) + 1) \div 2
     /\ (/\ thermostat[1].temperature = <<>>
         /\ thermostat[1].sensor_mode \notin
              {<<SENSOR_ROOM>>, <<SENSOR_FLOOR>>, <<SENSOR_ROOM_FLOOR>>})
        => thermostat_out.value = 0

\* C19 witness: a WD5 device with a Room+Floor sensor whose two readings
\* have an odd sum, so that the average was rounded up.
C19_Witness ==
  /\ CurrentWithSensor(SENSOR_ROOM_FLOOR)
  /\ thermostat[1].temperature_floor # <<>>
  /\ thermostat[1].temperature_room # <<>>
  /\ (thermostat[1].temperature_floor[1]
      + thermostat[1].temperature_room[1]) % 2 = 1
  /\ 2 * thermostat_out.value =
       thermostat[1].temperature_floor[1]
       + thermostat[1].temperature_room[1] + 1


\* C20: for every parsed device, regulation mode, embedded schedule and
\* time, get_current_temperature and get_target_temperature return a value
\* and never raise.
C20_AccessorsNeverRaise ==
  thermostat_out.fn \in {"get_current_temperature", "get_target_temperature"}
  => thermostat_out.raised = "none"


\* The fields of a Thermostat that only the WD5 family has.
WD5_ONLY_FIELDS ==
  {"thermostat_id", "schedule", "adaptive_mode", "open_window_detection",
   "daylight_saving_active", "sensor_mode", "temperature_floor",
   "temperature_room", "boost_end_time", "vacation_mode",
   "vacation_begin_time", "vacation_end_time", "vacation_temperature",
   "frost_protection_temperature", "boost_temperature"}

\* The fields of a Thermostat that only the WG4 family has.
WG4_ONLY_FIELDS == {"temperature", "set_point_temperature"}

\* C21: a device built by the WD5 parse has the unified temperature and the
\* set-point temperature unset and its sensor mode set; a device built by the
\* WG4 parse has every WD5-only field unset and the unified pair set.
C21_FieldExclusivity ==
  thermostat # <<>> =>
    IF thermostat_json.api = "WD5"
    THEN /\ \A f \in WG4_ONLY_FIELDS : thermostat[1][f] = <<>>
         /\ thermostat[1].sensor_mode # <<>>
    ELSE /\ \A f \in WD5_ONLY_FIELDS : thermostat[1][f] = <<>>
         /\ \A f \in WG4_ONLY_FIELDS : thermostat[1][f] # <<>>


(***************************************************************************)
(* Update request claims.                                                  *)
(***************************************************************************)
\* The text YYYY-MM-DDTHH:MM:SS of a wall clock given in seconds.
WallText(n) ==
  <<n \div 86400, (n % 86400) \div 3600, (n % 3600) \div 60, n % 60>>

\* The text of a stored date, null when the date is unset.
StoredText(d) == IF d = <<>> THEN <<>> ELSE <<WallText(d[1].wall)>>

\* The local time at which the request was built, in seconds.
LocalNow == seconds_of(clock_now)

\* A WD5 update body was built for the target mode.
WD5BodyFor(mode) ==
  /\ update_out.api = "WD5"
  /\ update_out.regulation_mode = mode

\* C22: in a WD5 update body ComfortEndTime is now + duration minutes when
\* the target mode is Comfort and the stored comfort end otherwise,
\* BoostEndTime is now + 1 hour when the target mode is Boost and the stored
\* boost end otherwise, the vacation days are the stored ones, and an unset
\* stored date is sent as null.
C22_WD5EndTimes ==
  update_out.api = "WD5" =>
    LET g == update_out.body.SetGroup
        t == thermostat[1]
    IN /\ g.ComfortEndTime =
            IF update_out.regulation_mode = REGULATION_COMFORT
            THEN <<WallText(LocalNow + update_out.duration * 60)>>
            ELSE <<WallText(t.comfort_end_time.wall)>>
       /\ g.BoostEndTime =
            IF update_out.regulation_mode = REGULATION_BOOST
            THEN <<WallText(LocalNow + 3600)>>
            ELSE StoredText(t.boost_end_time)
       /\ g.VacationBeginDay = StoredText(t.vacation_begin_time)
       /\ g.VacationEndDay = StoredText(t.vacation_end_time)

\* C22 witness: a Comfort body for a WD5 device built shortly before
\* midnight: the comfort end is on the next day and differs from the stored
\* one, the boost end is the stored one.
C22_Witness ==
  /\ WD5BodyFor(REGULATION_COMFORT)
  /\ thermostat_json.api = "WD5"
  /\ update_out.body.SetGroup.ComfortEndTime[1][1] = clock_now.day + 1
  /\ update_out.body.SetGroup.ComfortEndTime
       # <<strftime(thermostat[1].comfort_end_time)>>
  /\ update_out.body.SetGroup.BoostEndTime # <<>>
  /\ update_out.body.SetGroup.BoostEndTime = fmt(thermostat[1].boost_end_time)

\* The setpoint a WD5 body carries under the rule "the supplied temperature
\* when one is supplied, the stored one otherwise".
SuppliedElseStored(temperature, stored) ==
  IF temperature # <<>> THEN temperature[1] ELSE stored

\* C23: in a WD5 update body ComfortSetpoint is the supplied temperature
\* (0 included) when the target mode is Comfort and one is supplied, and the
\* stored comfort setpoint otherwise; ManualModeSetpoint follows the same
\* rule for the target mode Manual.
C23_WD5Setpoints ==
  update_out.api = "WD5" =>
    LET g == update_out.body.SetGroup
        t == thermostat[1]
    IN /\ g.ComfortSetpoint =
            IF update_out.regulation_mode = REGULATION_COMFORT
            THEN SuppliedElseStored(update_out.temperature,
                                    t.comfort_temperature)
            ELSE t.comfort_temperature
       /\ g.ManualModeSetpoint =
            IF update_out.regulation_mode = REGULATION_MANUAL
            THEN SuppliedElseStored(update_out.temperature,
                                    t.manual_temperature)
            ELSE t.manual_temperature

\* The fields a WG4 body carries besides RegulationMode and VacationEnabled.
WG4Extras == DOMAIN update_out.body \ {"RegulationMode", "VacationEnabled"}

\* The text "dd/mm/YYYY HH:MM:00 +00:00" of a UTC wall clock in seconds.
WG4Text(n) ==
  [clock |-> <<n \div 86400, (n % 86400) \div 3600, (n % 3600) \div 60, 0>>,
   offsets |-> <<0>>]

\* C24: a WG4 update body carries RegulationMode and VacationEnabled; Manual
\* adds only ManualTemperature, Comfort adds only ComfortTemperature and
\* ComfortEndTime = now (UTC) + duration minutes with seconds 00 and suffix
\* +00:00, every other mode adds nothing; the serial number is a query
\* parameter.
C24_WG4Body ==
  update_out.api = "WG4" =>
    LET b == update_out.body
        t == thermostat[1]
        mode == update_out.regulation_mode
    IN /\ {"RegulationMode", "VacationEnabled"} \subseteq DOMAIN b
       /\ b.RegulationMode = mode
       /\ b.VacationEnabled = t.vacation_mode
       /\ mode = REGULATION_MANUAL =>
            /\ WG4Extras = {"ManualTemperature"}
            /\ b.ManualTemperature = update_out.temperature
       /\ mode = REGULATION_COMFORT =>
            /\ WG4Extras = {"ComfortTemperature", "ComfortEndTime"}
            /\ b.ComfortTemperature = update_out.temperature
            /\ b.ComfortEndTime =
                 WG4Text(LocalNow - local_zone + update_out.duration * 60)
       /\ mode \notin {REGULATION_MANUAL, REGULATION_COMFORT} =>
            WG4Extras = {}
       /\ update_out.params = [serialnumber |-> t.serial_number]

\* C24 witness: a Comfort body for a WG4 device built where the local zone
\* is behind UTC and the clock is not on a whole minute: the end time is on
\* the next UTC day with seconds 00.
C24_Witness ==
  /\ update_out.api = "WG4"
  /\ thermostat_json.api = "WG4"
  /\ update_out.regulation_mode = REGULATION_COMFORT
  /\ update_out.temperature = <<2350>>
  /\ local_zone < 0
  /\ clock_now.second # 0
  /\ update_out.body.ComfortEndTime.clock[1] = clock_now.day + 1
  /\ update_out.body.ComfortEndTime.clock[4] = 0
  /\ update_out.params.serialnumber = "42424242"

\* The Thermostat as it was built from the fetched item.
ParsedDevice ==
  IF thermostat_json.api = "WD5" THEN from_wd5_json(thermostat_json)
  ELSE from_wg4_json(thermostat_json)

\* C25: building an update body leaves every field of the Thermostat as it
\* was, for either adapter and every target mode, temperature and duration;
\* a body built with no temperature carries the setpoints the Thermostat was
\* built with, whatever bodies were built before it.
C25_BodyFrame ==
  update_out.count >= 1 =>
    /\ thermostat = <<ParsedDevice>>
    /\ (update_out.api = "WD5" /\ update_out.temperature = <<>>) =>
         /\ update_out.body.SetGroup.ComfortSetpoint
              = ParsedDevice.comfort_temperature
         /\ update_out.body.SetGroup.ManualModeSetpoint
              = ParsedDevice.manual_temperature

\* C25 witness: the second body built from one WD5 Thermostat, for Comfort
\* with no temperature supplied; it carries the comfort setpoint of the
\* fetched item.
C25_Witness ==
  /\ update_out.count = 2
  /\ update_out.api = "WD5"
  /\ thermostat_json.api = "WD5"
  /\ update_out.regulation_mode = REGULATION_COMFORT
  /\ update_out.temperature = <<>>
  /\ update_out.body.SetGroup.ComfortSetpoint = thermostat_json.ComfortSetpoint
  /\ thermostat[1].comfort_temperature = thermostat_json.ComfortSetpoint

(***************************************************************************)
(* Date claims.                                                            *)
(***************************************************************************)
\* The wall clock T, in seconds, that a WD5 date text reads as.
ReadAs(text) == text[1] * 86400 + text[2] * 3600 + text[3] * 60 + text[4]

\* A WD5 item was parsed into the Thermostat.
WD5Parsed == thermostat # <<>> /\ thermostat_json.api = "WD5"

\* C27: parse_wd5_date labels the timestamp with the UTC offset o and gives
\* it the value T - o when o >= 0 and T + o when o < 0, T being the wall
\* clock the text reads as; the value differs from T when o # 0 and is T
\* when o = 0.
C27_OffsetCorrection ==
  WD5Parsed =>
    LET T == ReadAs(thermostat_json.ComfortEndTime)
        o == thermostat_json.TimeZone
        d == thermostat[1].comfort_end_time
    IN /\ d.off = o
       /\ d.wall = IF o >= 0 THEN T - o ELSE T + o
       /\ o # 0 => d.wall # T
       /\ o = 0 => d.wall = T

\* C27 witness: an item with the offset -03:30 was parsed; the value is
\* three and a half hours before the text, on the previous day.
C27_Witness ==
  /\ WD5Parsed
  /\ thermostat_json.TimeZone = -12600
  /\ thermostat_json.ComfortEndTime = <<4, 0, 10, 0>>
  /\ thermostat[1].comfort_end_time = [wall |-> 3 * 86400 + 74400,
                                       off |-> -12600]

\* The instant of an aware datetime, in seconds of UTC.
Instant(d) == d.wall - d.off

\* A WD5 body was built for a WD5 Thermostat in a mode that keeps the stored
\* comfort end.
WD5KeepsComfortEnd ==
  /\ WD5Parsed
  /\ update_out.api = "WD5"
  /\ update_out.regulation_mode # REGULATION_COMFORT

\* The comfort end of the body parsed again with the offset of the item.
ReparsedComfortEnd ==
  parse_wd5_date(update_out.body.SetGroup.ComfortEndTime[1],
                 thermostat_json.TimeZone)

\* C26: parsing a WD5 date, serialising it as the update body does and
\* parsing that text again with the same offset gives the instant of the
\* first parse, and the body sends back the comfort end that was fetched.
C26_RoundTrip ==
  WD5KeepsComfortEnd =>
    /\ Instant(ReparsedComfortEnd) = Instant(thermostat[1].comfort_end_time)
    /\ update_out.body.SetGroup.ComfortEndTime
         = <<thermostat_json.ComfortEndTime>>

\* C26 (amended): the second parse is |o| seconds before the first, o being
\* the offset, and the body sends back the fetched comfort end moved |o|
\* seconds earlier; both are unchanged exactly when o = 0.
C26_RoundTripShift ==
  WD5KeepsComfortEnd =>
    LET o == thermostat_json.TimeZone
        first == thermostat[1].comfort_end_time
        sent_back == update_out.body.SetGroup.ComfortEndTime[1]
    IN /\ Instant(ReparsedComfortEnd) = Instant(first) - abs(o)
       /\ ReparsedComfortEnd.off = first.off
       /\ ReadAs(sent_back) = ReadAs(thermostat_json.ComfortEndTime) - abs(o)
       /\ (Instant(ReparsedComfortEnd) = Instant(first)) <=> (o = 0)

\* C26 witness: a body that keeps the stored dates, built for an item with
\* the offset +05:30; the comfort end sent back is not the fetched one.
C26_Witness ==
  /\ WD5KeepsComfortEnd
  /\ thermostat_json.TimeZone = 19800
  /\ update_out.regulation_mode = REGULATION_SCHEDULE
  /\ update_out.body.SetGroup.ComfortEndTime
       # <<thermostat_json.ComfortEndTime>>
  /\ Instant(ReparsedComfortEnd)
       = Instant(thermostat[1].comfort_end_time) - 19800

(***************************************************************************)
(* Implicit claims.                                                        *)
(***************************************************************************)
\* The positions of today's list whose event has a timestamp before now.
Before ==
  LET today == schedule_days.days[weekday(clock_now)] IN
  {i \in DOMAIN today : earlier(today[i].date, clock_now)}

\* The last position of today's list with a timestamp before now.
LastBefore == CHOOSE i \in Before : \A j \in Before : j <= i

\* C29: yesterday's list is consulted only if no event of today's list has a
\* timestamp before now; when one has, the result is the temperature of
\* today's last such event, whatever that temperature is, 0 included.
C29_TodayBeforeYesterday ==
  (ActiveEvaluated /\ Before # {})
  => /\ schedule_out.raised = "none"
     /\ schedule_out.value =
          schedule_days.days[weekday(clock_now)][LastBefore].temperature

\* The owned flag is true only while an internally created transport exists
\* that has not been closed.
OwnedImpliesOpenInternal ==
  close_http_session => (http_session = "internal" /\ http_closes = 0)

\* Once an owned transport has been closed it stays closed, it is kept, and
\* the owned flag is false from then on.
ClosedStaysClosed ==
  http_closes >= 1 =>
    /\ http_closes' >= 1
    /\ http_session' = http_session
    /\ http_session = "internal"
    /\ ~close_http_session'

\* C30: in every reachable state the owned flag is true only if a transport
\* exists that a request created internally and that has not been closed;
\* after close() has closed an owned transport no later request creates a
\* new transport and the owned flag never becomes true again.
C30_OwnedFlag == []OwnedImpliesOpenInternal /\ [][ClosedStaysClosed]_vars

\* C30 witness: a request was made after close() had closed the owned
\* transport; it went out on the closed transport and the owned flag is
\* false.
C30_Witness ==
  \E c \in Contexts :
    /\ http_closes = 1
    /\ http_session = "internal"
    /\ pc[c] = "login_wait"
    /\ inflight[c].kind = "login"
    /\ ~close_http_session

(***************************************************************************)
(* Concurrent use.                                                         *)
(***************************************************************************)
\* The positions of the login requests among the requests of c's call.
LoginRequests(c) == {i \in DOMAIN sent[c] : sent[c][i].kind = "login"}

\* Context c stores the session of a login response and goes on to its list
\* request in this step.
StoresSession(c) == pc[c] = "login_wait" /\ pc'[c] = "list_wait"

\* Only one context has called the client so far.
SerialSoFar == \E c \in Contexts : op[c] = "none"

\* Every get_thermostats() that found no session when it began sends a login
\* request first, and no call sends more than one.
LoginPerCall ==
  \A c \in Contexts :
    (op[c] = "get_thermostats" /\ at_call[c].session_id = None)
    => /\ sent[c] # <<>>
       /\ sent[c][1].kind = "login"
       /\ Cardinality(LoginRequests(c)) = 1

\* A stored login response replaces the token and sets the counter to 300
\* (less the list request dispatched next) whatever was held before; while
\* only one context has called, no session was held before.
LoginStore ==
  \A c \in Contexts :
    StoresSession(c) =>
      /\ session_id' = login_resp'[c].data.SessionId
      /\ session_calls_left' = session_calls - 1
      /\ SerialSoFar => session_id = None

\* C28: when two contexts call get_thermostats() on a client that holds no
\* session and interleave where a request awaits its response, each of them
\* sends a login request, and a login response overwrites the token and
\* resets the counter to 300 whatever the other context has stored and
\* counted; in serial use a login response never replaces a session.
C28_ConcurrentLogin == []LoginPerCall /\ [][LoginStore]_vars

\* C28 witness: both contexts sent a login and then a list request; the
\* list request of one went out with a token that the other's login response
\* has overwritten, both list requests were counted from 300, and the
\* counter stands at 299.
C28_Witness ==
  \E c, d \in Contexts :
    /\ c # d
    /\ Len(sent[c]) = 2 /\ Len(sent[d]) = 2
    /\ sent[c][1].kind = "login" /\ sent[d][1].kind = "login"
    /\ sent[c][2].kind = "list" /\ sent[d][2].kind = "list"
    /\ sent[c][2].sessionid # session_id
    /\ sent[d][2].sessionid = session_id
    /\ sent[c][2].before = session_calls /\ sent[d][2].before = session_calls
    /\ pc[d] = "list_wait"
    /\ session_calls_left = session_calls - 1

====
